---------------------------- MODULE Spec2Model ----------------------------
(***************************************************************************)
(* A model of waly-rs (src/src/lib.rs): a write-ahead log kept in one file *)
(* of newline-delimited JSON records, used through one WriteAheadLog       *)
(* handle at a time.                                                       *)
(*                                                                         *)
(* The file is modelled byte for byte (a sequence of 0..255), because what *)
(* the operations do depends on bytes: an append whose write fails part    *)
(* way leaves a torn line, read_to_string rejects invalid UTF-8, lines()   *)
(* splits at line feeds and serde_json accepts or rejects each line.       *)
(* serde_json's encoder and decoder for LogEntry are written out as        *)
(* operators (Serialize, FromStr) over the bytes of Alphabet, the bytes    *)
(* that the files and the writes of this model are made of.                *)
(***************************************************************************)
EXTENDS Integers, Sequences, FiniteSets, TLC

(***************************************************************************)
(* Bytes.                                                                  *)
(***************************************************************************)
Ch ==
    [ nul |-> 0, tab |-> 9, lf |-> 10, cr |-> 13, sp |-> 32, quote |-> 34,
      comma |-> 44, zero |-> 48, nine |-> 57, colon |-> 58, lbracket |-> 91,
      rbracket |-> 93, e |-> 101, x |-> 120, lbrace |-> 123, rbrace |-> 125,
      xff |-> 255 ]

Digits == Ch.zero .. Ch.nine

\* JSON whitespace, as serde_json skips it between tokens.
Ws == {Ch.sp, Ch.tab, Ch.lf, Ch.cr}

\* The field names of LogEntry, as bytes: "id", "timestamp", "data".
KeyId == <<105, 100>>

KeyTimestamp == <<116, 105, 109, 101, 115, 116, 97, 109, 112>>

KeyData == <<100, 97, 116, 97>>

\* The bytes the model's files are made of.  FromStr and ValidUtf8 are
\* written for sequences over these bytes.
Alphabet ==
    Digits \cup Ws
    \cup {Ch.nul, Ch.quote, Ch.comma, Ch.colon, Ch.lbracket, Ch.rbracket,
          Ch.lbrace, Ch.rbrace, Ch.x, Ch.xff, 195, 169}
    \cup {KeyTimestamp[i] : i \in 1..Len(KeyTimestamp)}
    \cup {KeyData[i] : i \in 1..Len(KeyData)}

Min(a, b) == IF a <= b THEN a ELSE b

Take(s, n) == SubSeq(s, 1, Min(n, Len(s)))

Drop(s, n) == SubSeq(s, n + 1, Len(s))

(***************************************************************************)
(* serde_json::to_vec(&LogEntry): the compact encoding                     *)
(*   {"id":N,"timestamp":N,"data":[b,b,...]}                               *)
(* with numbers in decimal, no sign, no leading zero.                      *)
(***************************************************************************)
RECURSIVE Decimal(_)
Decimal(n) ==
    IF n < 10 THEN <<Ch.zero + n>>
    ELSE Decimal(n \div 10) \o <<Ch.zero + (n % 10)>>

RECURSIVE DecimalList(_)
DecimalList(bs) ==
    IF bs = <<>> THEN <<>>
    ELSE IF Len(bs) = 1 THEN Decimal(bs[1])
    ELSE Decimal(bs[1]) \o <<Ch.comma>> \o DecimalList(Tail(bs))

Quoted(key) == <<Ch.quote>> \o key \o <<Ch.quote>>

Serialize(entry) ==
    <<Ch.lbrace>>
    \o Quoted(KeyId) \o <<Ch.colon>> \o Decimal(entry.id) \o <<Ch.comma>>
    \o Quoted(KeyTimestamp) \o <<Ch.colon>> \o Decimal(entry.timestamp)
    \o <<Ch.comma>>
    \o Quoted(KeyData) \o <<Ch.colon, Ch.lbracket>> \o DecimalList(entry.data)
    \o <<Ch.rbracket, Ch.rbrace>>

(***************************************************************************)
(* File::read_to_string: the bytes must be valid UTF-8 (the check of       *)
(* core::str::from_utf8), else the read fails with InvalidData.            *)
(***************************************************************************)
At(s, i) == IF i >= 1 /\ i <= Len(s) THEN s[i] ELSE -1

IsCont(b) == b >= 128 /\ b <= 191

RECURSIVE Utf8From(_, _)
Utf8From(s, i) ==
    IF i > Len(s) THEN TRUE
    ELSE LET b == s[i]
             b1 == At(s, i + 1)
             b2 == At(s, i + 2)
             b3 == At(s, i + 3)
         IN  IF b < 128 THEN TRUE
             ELSE IF b >= 194 /\ b <= 223
                  THEN IsCont(b1) /\ Utf8From(s, i + 2)
             ELSE IF b = 224
                  THEN b1 >= 160 /\ b1 <= 191 /\ IsCont(b2) /\ Utf8From(s, i + 3)
             ELSE IF (b >= 225 /\ b <= 236) \/ b = 238 \/ b = 239
                  THEN IsCont(b1) /\ IsCont(b2) /\ Utf8From(s, i + 3)
             ELSE IF b = 237
                  THEN b1 >= 128 /\ b1 <= 159 /\ IsCont(b2) /\ Utf8From(s, i + 3)
             ELSE IF b = 240
                  THEN b1 >= 144 /\ b1 <= 191 /\ IsCont(b2) /\ IsCont(b3)
                       /\ Utf8From(s, i + 4)
             ELSE IF b >= 241 /\ b <= 243
                  THEN IsCont(b1) /\ IsCont(b2) /\ IsCont(b3) /\ Utf8From(s, i + 4)
             ELSE IF b = 244
                  THEN b1 >= 128 /\ b1 <= 143 /\ IsCont(b2) /\ IsCont(b3)
                       /\ Utf8From(s, i + 4)
             ELSE FALSE

\* A byte below 128 is a character wherever it stands, and no part of a
\* longer one: s is valid when each of its runs of bytes from 128 up is.
ValidUtf8(s) ==
    \A i \in 1 .. Len(s) :
      (s[i] >= 128 /\ At(s, i - 1) < 128) => Utf8From(s, i)

(***************************************************************************)
(* str::lines: split after each line feed; a line loses its line feed and  *)
(* then one carriage return before it; text after the last line feed is a  *)
(* line of its own.                                                        *)
(***************************************************************************)
StripCr(l) ==
    IF l # <<>> /\ l[Len(l)] = Ch.cr THEN SubSeq(l, 1, Len(l) - 1) ELSE l

\* The lines of s from index i on; lfs holds the indexes of the line feeds.
RECURSIVE LinesFrom(_, _, _)
LinesFrom(s, i, lfs) ==
    IF i > Len(s) THEN <<>>
    ELSE LET after == {n \in lfs : n >= i}
         IN  IF after = {} THEN <<SubSeq(s, i, Len(s))>>
             ELSE LET n == CHOOSE m \in after : \A k \in after : m <= k
                  IN  <<StripCr(SubSeq(s, i, n - 1))>> \o LinesFrom(s, n + 1, lfs)

Lines(s) == LinesFrom(s, 1, {n \in 1 .. Len(s) : s[n] = Ch.lf})

(***************************************************************************)
(* serde_json::from_str::<LogEntry>, on a line over Alphabet.  A parser's  *)
(* result is [next, val]: next is the index after what it read, 0 when it  *)
(* failed.  The alphabet has no backslash, sign, point or literal (true,   *)
(* false, null), so the parser has no case for them; a number has at most  *)
(* 9 digits in the model's files, far from the u64 limit.                  *)
(*                                                                         *)
(* Bind(v, F) is F(v), with v evaluated once.                              *)
(***************************************************************************)
Bind(v, F(_)) == CHOOSE r \in {F(x) : x \in {v}} : TRUE

Fail == [next |-> 0, val |-> 0]

RECURSIVE SkipWs(_, _)
SkipWs(s, i) == IF At(s, i) \in Ws THEN SkipWs(s, i + 1) ELSE i

RECURSIVE DigitsEnd(_, _)
DigitsEnd(s, i) == IF At(s, i) \in Digits THEN DigitsEnd(s, i + 1) ELSE i

\* The value of the digits s[i..j-1].
RECURSIVE DecimalValue(_, _, _)
DecimalValue(s, i, j) ==
    IF j <= i THEN 0
    ELSE 10 * DecimalValue(s, i, j - 1) + (s[j - 1] - Ch.zero)

\* A number read for an unsigned field: digits, no leading zero, and no
\* exponent (a float is not accepted for u64 or u8).
ParseU64(s, i0) ==
    Bind(SkipWs(s, i0), LAMBDA i :
    Bind(DigitsEnd(s, i), LAMBDA j :
        IF j = i THEN Fail
        ELSE IF s[i] = Ch.zero /\ j > i + 1 THEN Fail
        ELSE IF At(s, j) = Ch.e THEN Fail
        ELSE [next |-> j, val |-> DecimalValue(s, i, j)]))

ParseU8(s, i0) ==
    Bind(ParseU64(s, i0), LAMBDA r :
        IF r.next # 0 /\ r.val > 255 THEN Fail ELSE r)

\* Vec<u8>: '[' then u8 elements separated by commas, then ']'.
RECURSIVE ByteElems(_, _, _, _)
ByteElems(s, i0, first, acc) ==
    Bind(SkipWs(s, i0), LAMBDA i :
    Bind(At(s, i), LAMBDA c :
        IF c = Ch.rbracket THEN [next |-> i + 1, val |-> acc]
        ELSE IF (c = Ch.comma /\ ~first) \/ (first /\ c # -1)
        THEN Bind(ParseU8(s, IF first THEN i ELSE i + 1), LAMBDA r :
                 IF r.next = 0 THEN Fail
                 ELSE ByteElems(s, r.next, FALSE, Append(acc, r.val)))
        ELSE Fail))

ParseBytes(s, i0) ==
    Bind(SkipWs(s, i0), LAMBDA i :
        IF At(s, i) = Ch.lbracket THEN ByteElems(s, i + 1, TRUE, <<>>)
        ELSE Fail)

\* The index of the quote that closes a string whose text starts at i, 0
\* if none; a control character in the string is an error.
StrEnd(s, i) ==
    LET quotes == {n \in i .. Len(s) : s[n] = Ch.quote}
    IN  IF quotes = {} THEN 0
        ELSE Bind(CHOOSE q \in quotes : \A n \in quotes : q <= n, LAMBDA q :
                 IF \E n \in i .. q - 1 : s[n] < 32 THEN 0 ELSE q)

\* A number that is skipped (the value of an unknown field): an exponent is
\* accepted, with at least one digit.
IgnoreNumber(s, i) ==
    Bind(DigitsEnd(s, i), LAMBDA j :
        IF s[i] = Ch.zero /\ j > i + 1 THEN 0
        ELSE IF At(s, j) = Ch.e
             THEN Bind(DigitsEnd(s, j + 1), LAMBDA k :
                      IF k = j + 1 THEN 0 ELSE k)
        ELSE j)

\* A member of an object from index k on: a string, whitespace, a colon.
\* The result is [next, val]: the index after the colon, and the key.
ParseKey(s, k) ==
    Bind(IF At(s, k) = Ch.quote THEN StrEnd(s, k + 1) ELSE 0, LAMBDA q :
        IF q = 0 THEN Fail
        ELSE Bind(SkipWs(s, q + 1), LAMBDA col :
                 IF At(s, col) # Ch.colon THEN Fail
                 ELSE [next |-> col + 1, val |-> SubSeq(s, k + 1, q - 1)]))

\* serde::de::IgnoredAny: any JSON value, skipped.
RECURSIVE IgnoreValue(_, _)
RECURSIVE IgnoreElems(_, _, _)
RECURSIVE IgnoreMembers(_, _, _)
IgnoreValue(s, i0) ==
    Bind(SkipWs(s, i0), LAMBDA i :
    Bind(At(s, i), LAMBDA c :
        IF c \in Digits THEN IgnoreNumber(s, i)
        ELSE IF c = Ch.quote
             THEN Bind(StrEnd(s, i + 1), LAMBDA q : IF q = 0 THEN 0 ELSE q + 1)
        ELSE IF c = Ch.lbracket THEN IgnoreElems(s, i + 1, TRUE)
        ELSE IF c = Ch.lbrace THEN IgnoreMembers(s, i + 1, TRUE)
        ELSE 0))

IgnoreElems(s, i0, first) ==
    Bind(SkipWs(s, i0), LAMBDA i :
    Bind(At(s, i), LAMBDA c :
        IF c = Ch.rbracket THEN i + 1
        ELSE IF (c = Ch.comma /\ ~first) \/ (first /\ c # -1)
        THEN Bind(IgnoreValue(s, IF first THEN i ELSE i + 1), LAMBDA n :
                 IF n = 0 THEN 0 ELSE IgnoreElems(s, n, FALSE))
        ELSE 0))

IgnoreMembers(s, i0, first) ==
    Bind(SkipWs(s, i0), LAMBDA i :
    Bind(At(s, i), LAMBDA c :
        IF c = Ch.rbrace THEN i + 1
        ELSE IF (c = Ch.comma /\ ~first) \/ (first /\ c # -1)
        THEN Bind(ParseKey(s, IF first THEN i ELSE SkipWs(s, i + 1)), LAMBDA k :
                 IF k.next = 0 THEN 0
                 ELSE Bind(IgnoreValue(s, k.next), LAMBDA n :
                          IF n = 0 THEN 0 ELSE IgnoreMembers(s, n, FALSE)))
        ELSE 0))

\* The value of a member of LogEntry's object, read as its key asks; the
\* result is [next, val]: the index after the value, and got with the
\* field added.  A field that is given twice is an error.  got holds each
\* field read so far as a sequence of at most one value.
Member(s, i, key, got) ==
    IF key = KeyId
    THEN Bind(ParseU64(s, i), LAMBDA r :
             IF got.id # <<>> \/ r.next = 0 THEN Fail
             ELSE [next |-> r.next, val |-> [got EXCEPT !.id = <<r.val>>]])
    ELSE IF key = KeyTimestamp
    THEN Bind(ParseU64(s, i), LAMBDA r :
             IF got.timestamp # <<>> \/ r.next = 0 THEN Fail
             ELSE [next |-> r.next, val |-> [got EXCEPT !.timestamp = <<r.val>>]])
    ELSE IF key = KeyData
    THEN Bind(ParseBytes(s, i), LAMBDA r :
             IF got.data # <<>> \/ r.next = 0 THEN Fail
             ELSE [next |-> r.next, val |-> [got EXCEPT !.data = <<r.val>>]])
    ELSE Bind(IgnoreValue(s, i), LAMBDA n :
             IF n = 0 THEN Fail ELSE [next |-> n, val |-> got])

\* LogEntry read from a JSON object: the three fields in any order, each
\* once, unknown fields skipped, a missing field an error.
RECURSIVE MapMembers(_, _, _, _)
MapMembers(s, i0, first, got) ==
    Bind(SkipWs(s, i0), LAMBDA i :
    Bind(At(s, i), LAMBDA c :
        IF c = Ch.rbrace
        THEN IF got.id # <<>> /\ got.timestamp # <<>> /\ got.data # <<>>
             THEN [next |-> i + 1,
                   val |-> [id |-> got.id[1], timestamp |-> got.timestamp[1],
                            data |-> got.data[1]]]
             ELSE Fail
        ELSE IF (c = Ch.comma /\ ~first) \/ (first /\ c # -1)
        THEN Bind(ParseKey(s, IF first THEN i ELSE SkipWs(s, i + 1)), LAMBDA k :
                 IF k.next = 0 THEN Fail
                 ELSE Bind(Member(s, k.next, k.val, got), LAMBDA m :
                          IF m.next = 0 THEN Fail
                          ELSE MapMembers(s, m.next, FALSE, m.val)))
        ELSE Fail))

\* LogEntry read from a JSON array: id, timestamp, data, and no more.
CommaAfter(s, i) ==
    Bind(SkipWs(s, i), LAMBDA c : IF At(s, c) = Ch.comma THEN c + 1 ELSE 0)

StructSeq(s, i0) ==
    Bind(ParseU64(s, i0), LAMBDA r1 :
        IF r1.next = 0 \/ CommaAfter(s, r1.next) = 0 THEN Fail
        ELSE Bind(ParseU64(s, CommaAfter(s, r1.next)), LAMBDA r2 :
            IF r2.next = 0 \/ CommaAfter(s, r2.next) = 0 THEN Fail
            ELSE Bind(ParseBytes(s, CommaAfter(s, r2.next)), LAMBDA r3 :
                IF r3.next = 0 \/ At(s, SkipWs(s, r3.next)) # Ch.rbracket
                THEN Fail
                ELSE [next |-> SkipWs(s, r3.next) + 1,
                      val |-> [id |-> r1.val, timestamp |-> r2.val,
                               data |-> r3.val]])))

\* from_str: one value, then nothing but whitespace.
NoEntry == [ok |-> FALSE, entry |-> 0]

FromStr(line) ==
    Bind(SkipWs(line, 1), LAMBDA i :
    Bind(IF At(line, i) = Ch.lbrace
         THEN MapMembers(line, i + 1, TRUE,
                         [id |-> <<>>, timestamp |-> <<>>, data |-> <<>>])
         ELSE IF At(line, i) = Ch.lbracket THEN StructSeq(line, i + 1)
         ELSE Fail, LAMBDA r :
        IF r.next # 0 /\ SkipWs(line, r.next) = Len(line) + 1
        THEN [ok |-> TRUE, entry |-> r.val]
        ELSE NoEntry))

\* lines().filter(non-empty).filter_map(from_str(line).ok()).collect()
RECURSIVE ParseLines(_, _)
ParseLines(ls, n) ==
    IF n > Len(ls) THEN <<>>
    ELSE Bind(IF ls[n] = <<>> THEN NoEntry ELSE FromStr(ls[n]), LAMBDA r :
             (IF r.ok THEN <<r.entry>> ELSE <<>>) \o ParseLines(ls, n + 1))

Entries(content) == Bind(Lines(content), LAMBDA ls : ParseLines(ls, 1))


(***************************************************************************)
(* Bounds.                                                                 *)
(***************************************************************************)
\* append is called while current_id is below MaxId.
MaxId == 2

\* append is called while the file holds fewer than MaxLines lines.
MaxLines == 3

\* The number of writes that fail part way (I/O errors) in one behaviour.
MaxFail == 1

\* The number of power losses in one behaviour.
MaxLoss == 1

\* How many bytes of a record reach the file when the write of the record
\* is torn inside the record.
TornAt == 7

\* What the clock returns (seconds), and the payloads and ids callers pass.
Timestamps == {1}

Payloads == {<<>>, <<65>>}

Ids == 0 .. MaxId

Entry(id, timestamp, data) ==
    [id |-> id, timestamp |-> timestamp, data |-> data]

Record(id, timestamp, data) ==
    Serialize(Entry(id, timestamp, data)) \o <<Ch.lf>>

\* What the file at the path holds before the first open: nothing (the
\* path is absent or empty), or bytes that were put there by other means:
\*   records whose ids are not in increasing order;
\*   a record, a line that is no JSON, an empty line, and a record that is
\*   well-formed but not in the encoder's layout;
\*   a record and a line that is not UTF-8.
InitialFiles ==
    { <<>>,
      Record(2, 1, <<>>) \o Record(0, 2, <<65>>),
      Record(0, 1, <<65>>) \o <<Ch.x, Ch.lbrace, Ch.lf, Ch.lf, Ch.sp>>
        \o <<Ch.lbrace>> \o Quoted(KeyTimestamp) \o <<Ch.colon, 50, Ch.comma>>
        \o Quoted(KeyData) \o <<Ch.colon, Ch.lbracket, 55, Ch.rbracket, Ch.comma>>
        \o Quoted(KeyId) \o <<Ch.colon, 49, Ch.rbrace, Ch.cr, Ch.lf>>,
      Record(0, 1, <<>>) \o <<Ch.xff, Ch.lf>> }

(***************************************************************************)
(* The state.                                                              *)
(*   file        the bytes of the file as the operating system serves them *)
(*   stable      the bytes on stable storage: what a power loss leaves     *)
(*   open        whether a WriteAheadLog handle exists                     *)
(*   current_id  WriteAheadLog::current_id                                 *)
(*   pos         the offset of the open file description                   *)
(*   fails, losses   the I/O errors and power losses so far                *)
(*   last        the last call: its name, arguments and result; whether    *)
(*               the call before it was a clear, and if the call is a      *)
(*               clear, or follows one, current_id before that clear; how  *)
(*               many entries a clear_id took out (removed); how many      *)
(*               entries of other ids a clear_id that failed while it      *)
(*               wrote has left out of the file (lost), kept through the   *)
(*               close, the new and the read_all that follow it            *)
(*   handle      of the open handle: whether it was opened on an empty     *)
(*               file, and the appends called and succeeded through it     *)
(*   kept        the entries that successful appends returned, less those  *)
(*               whose id a clear_id was called with since, and none after *)
(*               a clear or a clear_id that failed while it wrote          *)
(* and, for the threads that share the handle:                             *)
(*   lock        the thread that holds the guard of the Mutex around the   *)
(*               file, or NoThread                                         *)
(*   pc          each thread's place: idle, waiting for the lock, or the   *)
(*               statement of its call that it executes next               *)
(*   local       each thread's call: its name and argument, and what it    *)
(*               has read from the file                                    *)
(***************************************************************************)
VARIABLES file, stable, open, current_id, pos, fails, losses, last, handle,
          kept, lock, pc, local

threadVars == <<lock, pc, local>>

vars ==
    <<file, stable, open, current_id, pos, fails, losses, last, handle, kept,
      threadVars>>

Threads == {"t1", "t2"}

NoThread == "none"

NoLocal == [op |-> "none", id |-> 0, ok |-> TRUE, ret |-> <<>>, bytes |-> <<>>]

(***************************************************************************)
(* The file operations the code calls.                                     *)
(***************************************************************************)
\* (A variant without .append(true): a write goes to the offset.)
OpenNoAppend == FALSE

\* OpenOptions: .append(true), so every write goes to the end of the file.
OpenAppend == TRUE

\* (A variant that writes from the start of the file, over what is there.)
WriteOver(content, p, bytes) == bytes \o Drop(content, Len(bytes))

\* write_all(bytes) with the offset at p; no bytes, no write.  Without
\* append mode the write is at p, and a p past the end leaves a gap of zero
\* bytes.
WriteAt(content, p, bytes) ==
    LET at == IF OpenAppend THEN Len(content) ELSE p
        padded == IF at > Len(content)
                  THEN content \o [i \in 1 .. at - Len(content) |-> Ch.nul]
                  ELSE content
    IN  IF bytes = <<>> THEN content
        ELSE Take(padded, at) \o bytes \o Drop(padded, at + Len(bytes))

\* The offset after that write_all: it moves only when bytes are written (no
\* bytes, no write), and then it is at the end of what was written.
OffsetAfter(content, p, bytes) ==
    IF bytes = <<>> THEN p
    ELSE (IF OpenAppend THEN Len(content) ELSE p) + Len(bytes)

\* File::flush does nothing: a File has no buffer of its own, and the code
\* calls neither sync_all nor sync_data.  What was written is in the file
\* the operating system serves, not yet on stable storage.
Flush(onDisk, content) == onDisk

\* (A variant that counts from 1.)
NextIdFromOne(entries) ==
    IF entries = <<>> THEN 1 ELSE entries[Len(entries)].id + 1

\* (A variant that takes the number of entries for the next id.)
NextIdCount(entries) == Len(entries)

\* get_new_id, after the read: the id after the last entry's, or 0.
NextId(entries) ==
    IF entries = <<>> THEN 0 ELSE entries[Len(entries)].id + 1

GetNewId(content) == NextId(Entries(content))

\* clear_id: the entries that stay, encoded again, a line feed after each.
RECURSIVE Encode(_)
Encode(entries) ==
    IF entries = <<>> THEN <<>>
    ELSE Serialize(Head(entries)) \o <<Ch.lf>> \o Encode(Tail(entries))

Keep(entries, id) == SelectSeq(entries, LAMBDA en : en.id # id)

\* (A variant that writes no line feed between the entries.)
RECURSIVE EncodeBare(_)
EncodeBare(entries) ==
    IF entries = <<>> THEN <<>>
    ELSE Serialize(Head(entries)) \o EncodeBare(Tail(entries))

RewriteNoLineFeed(entries, id) == EncodeBare(Keep(entries, id))

Rewrite(entries, id) == Encode(Keep(entries, id))

\* Where a write_all of bytes that fails may stop: before the first byte,
\* after a line feed, TornAt bytes into a record, or after a record's last
\* byte with its line feed not written.
LineStart(bytes, n) == IF n = 0 THEN TRUE ELSE bytes[n] = Ch.lf

IoCuts(bytes) ==
    { n \in 0 .. Len(bytes) - 1 :
        \/ LineStart(bytes, n)
        \/ bytes[n + 1] = Ch.lf
        \/ /\ n >= TornAt
           /\ LineStart(bytes, n - TornAt)
           /\ \A k \in n - TornAt + 1 .. n + 1 : bytes[k] # Ch.lf }

Call(op, ok, id, data, ret) ==
    [ op |-> op, ok |-> ok, id |-> id, data |-> data, ret |-> ret,
      removed |-> 0,
      lost |-> IF \/ op = "close" /\ last.op = "clear_id"
                  \/ op = "new" /\ last.op = "close"
                  \/ op = "read_all" /\ last.op = "new"
               THEN last.lost ELSE 0,
      afterClear |-> last.op = "clear" /\ last.ok,
      idAtClear |-> IF last.op = "clear" /\ last.ok THEN last.idAtClear ELSE 0 ]

NoHandle == [fresh |-> FALSE, called |-> 0, appended |-> 0]

Init ==
    /\ file \in InitialFiles
    /\ stable = file
    /\ open = FALSE
    /\ current_id = 0
    /\ pos = 0
    /\ fails = 0
    /\ losses = 0
    /\ last = [ op |-> "none", ok |-> TRUE, id |-> 0, data |-> <<>>,
                ret |-> <<>>, removed |-> 0, lost |-> 0,
                afterClear |-> FALSE, idAtClear |-> 0 ]
    /\ handle = NoHandle
    /\ kept = {}
    /\ lock = NoThread
    /\ pc = [t \in Threads |-> "idle"]
    /\ local = [t \in Threads |-> NoLocal]

(***************************************************************************)
(* WriteAheadLog::new: open the path (created empty if absent), read it    *)
(* through a clone of the handle, which shares the offset, and set         *)
(* current_id.  The read fails on bytes that are not UTF-8.                *)
(***************************************************************************)
New ==
    /\ ~open
    /\ IF ValidUtf8(file)
       THEN /\ open' = TRUE
            /\ current_id' = GetNewId(file)
            /\ handle' = [fresh |-> file = <<>>, called |-> 0, appended |-> 0]
            /\ last' = Call("new", TRUE, 0, <<>>, <<>>)
       ELSE /\ UNCHANGED <<open, current_id, handle>>
            /\ last' = Call("new", FALSE, 0, <<>>, <<>>)
    /\ pos' = Len(file)
    /\ UNCHANGED <<threadVars, file, stable, fails, losses, kept>>

(***************************************************************************)
(* append: the entry gets current_id and the clock's seconds; its encoding *)
(* and then a line feed are written, then flush; then current_id grows.    *)
(***************************************************************************)
\* (Named WalAppend: Append is the operator of Sequences.)
WalAppend(data, now) ==
    /\ open
    /\ current_id < MaxId
    /\ Len(Lines(file)) < MaxLines
    /\ LET entry == Entry(current_id, now, data)
           written == WriteAt(file, pos, Serialize(entry))
           ended == WriteAt(written, Len(written), <<Ch.lf>>)
       IN  /\ file' = ended
           /\ stable' = Flush(stable, ended)
           /\ pos' = OffsetAfter(written,
                               OffsetAfter(file, pos, Serialize(entry)),
                               <<Ch.lf>>)
           /\ current_id' = current_id + 1
           /\ last' = Call("append", TRUE, 0, data, <<entry>>)
           /\ kept' = kept \cup {entry}
    /\ handle' = [handle EXCEPT !.called = 1, !.appended = @ + 1]
    /\ UNCHANGED <<threadVars, open, fails, losses>>

\* (A variant that counts the id as used before it writes: a failed append
\* leaves current_id one higher.)
AppendIoErrorCounts(data, now, n) ==
    /\ open
    /\ current_id < MaxId
    /\ Len(Lines(file)) < MaxLines
    /\ fails < MaxFail
    /\ LET entry == Entry(current_id, now, data)
           written == WriteAt(file, pos, Take(Serialize(entry), n))
       IN  /\ file' = written
           /\ pos' = OffsetAfter(file, pos, Take(Serialize(entry), n))
    /\ current_id' = current_id + 1
    /\ fails' = fails + 1
    /\ last' = Call("append", FALSE, 0, <<>>, <<>>)
    /\ handle' = [handle EXCEPT !.called = 1]
    /\ UNCHANGED <<threadVars, stable, open, losses, kept>>

\* append when a write_all fails after n bytes of the record (n = its
\* length: the write of the line feed fails): the error is returned before
\* current_id grows.
AppendIoError(data, now, n) ==
    /\ open
    /\ current_id < MaxId
    /\ Len(Lines(file)) < MaxLines
    /\ fails < MaxFail
    /\ LET entry == Entry(current_id, now, data)
           written == WriteAt(file, pos, Take(Serialize(entry), n))
       IN  /\ file' = written
           /\ pos' = OffsetAfter(file, pos, Take(Serialize(entry), n))
    /\ fails' = fails + 1
    /\ last' = Call("append", FALSE, 0, <<>>, <<>>)
    /\ handle' = [handle EXCEPT !.called = 1]
    /\ UNCHANGED <<threadVars, stable, open, current_id, losses, kept>>

(***************************************************************************)
(* read_all: seek to the start, read the file to a string, keep the lines  *)
(* that parse.                                                             *)
(***************************************************************************)
ReadAllResult(content) ==
    IF ValidUtf8(content)
    THEN [ok |-> TRUE, entries |-> Entries(content)]
    ELSE [ok |-> FALSE, entries |-> <<>>]

\* (A variant of read_all that sets the next id from what it read.)
ReadAllRecounts ==
    /\ open
    /\ LET r == ReadAllResult(file)
       IN  /\ last' = Call("read_all", r.ok, 0, <<>>, r.entries)
           /\ current_id' = IF r.ok THEN NextId(r.entries) ELSE current_id
    /\ pos' = Len(file)
    /\ UNCHANGED <<threadVars, file, stable, open, fails, losses, handle,
                   kept>>

\* (A variant of read_all that takes the entries out of the file.)
ReadAllDrains ==
    /\ open
    /\ LET r == ReadAllResult(file)
       IN  last' = Call("read_all", r.ok, 0, <<>>, r.entries)
    /\ file' = <<>>
    /\ pos' = 0
    /\ UNCHANGED <<threadVars, stable, open, current_id, fails, losses, handle, kept>>

ReadAll ==
    /\ open
    /\ LET r == ReadAllResult(file)
       IN  last' = Call("read_all", r.ok, 0, <<>>, r.entries)
    /\ pos' = Len(file)
    /\ UNCHANGED <<threadVars, file, stable, open, current_id, fails, losses, handle,
                   kept>>

\* (A variant of clear that seeks and does not cut the file.)
ClearSeekOnly ==
    /\ open
    /\ pos' = 0
    /\ last' = [Call("clear", TRUE, 0, <<>>, <<>>)
                   EXCEPT !.idAtClear = current_id]
    /\ kept' = {}
    /\ UNCHANGED <<threadVars, file, stable, open, current_id, fails, losses, handle>>

\* (A variant of clear that starts the ids again.)
ClearResetsId ==
    /\ open
    /\ file' = <<>>
    /\ pos' = 0
    /\ current_id' = 0
    /\ last' = [Call("clear", TRUE, 0, <<>>, <<>>)
                   EXCEPT !.idAtClear = current_id]
    /\ kept' = {}
    /\ UNCHANGED <<threadVars, stable, open, fails, losses, handle>>

(***************************************************************************)
(* clear: set_len(0), seek to the start.                                   *)
(***************************************************************************)
Clear ==
    /\ open
    /\ file' = <<>>
    /\ pos' = 0
    /\ last' = [Call("clear", TRUE, 0, <<>>, <<>>)
                   EXCEPT !.idAtClear = current_id]
    /\ kept' = {}
    /\ UNCHANGED <<threadVars, stable, open, current_id, fails, losses, handle>>

(***************************************************************************)
(* clear_id: read as read_all does, set_len(0), write the entries that     *)
(* stay, flush.  The offset is at the old end when the file is cut.        *)
(***************************************************************************)
ClearId ==
    /\ open
    /\ LET r == ReadAllResult(file)
       IN  \E id \in Ids :
             IF r.ok
             THEN LET rewritten == WriteAt(<<>>, Len(file), Rewrite(r.entries, id))
                  IN  /\ file' = rewritten
                      /\ stable' = Flush(stable, rewritten)
                      /\ pos' = OffsetAfter(<<>>, Len(file),
                                            Rewrite(r.entries, id))
                      /\ last' = [Call("clear_id", TRUE, id, <<>>, <<>>)
                                    EXCEPT !.removed = Len(r.entries)
                                             - Len(Keep(r.entries, id))]
                      /\ kept' = {en \in kept : en.id # id}
             ELSE /\ pos' = Len(file)
                  /\ last' = Call("clear_id", FALSE, id, <<>>, <<>>)
                  /\ kept' = {en \in kept : en.id # id}
                  /\ UNCHANGED <<file, stable>>
    /\ UNCHANGED <<threadVars, open, current_id, fails, losses, handle>>

\* (A variant that writes a file of its own and puts it in the place of
\* the log when it is complete: a failure leaves the log as it was.)
ClearIdIoErrorAtomic ==
    /\ open
    /\ fails < MaxFail
    /\ ReadAllResult(file).ok
    /\ \E id \in Ids : last' = Call("clear_id", FALSE, id, <<>>, <<>>)
    /\ pos' = Len(file)
    /\ kept' = {}
    /\ fails' = fails + 1
    /\ UNCHANGED <<threadVars, file, stable, open, current_id, losses,
                   handle>>

\* clear_id when the write_all of the rewritten content fails after some n
\* bytes, or the process stops there: the file was cut to nothing and holds
\* those n bytes.
ClearIdIoError ==
    /\ open
    /\ fails < MaxFail
    /\ LET r == ReadAllResult(file)
       IN  /\ r.ok
           /\ \E id \in Ids :
                LET bytes == Rewrite(r.entries, id)
                IN  \E n \in IoCuts(bytes) :
                      LET torn == WriteAt(<<>>, Len(file), Take(bytes, n))
                      IN  /\ file' = torn
                          /\ pos' = OffsetAfter(<<>>, Len(file),
                                                Take(bytes, n))
                          /\ last' = [Call("clear_id", FALSE, id, <<>>, <<>>)
                                        EXCEPT !.lost =
                                          Len(Keep(r.entries, id))
                                            - Len(Entries(torn))]
    /\ kept' = {}
    /\ fails' = fails + 1
    /\ UNCHANGED <<threadVars, stable, open, current_id, losses, handle>>

(***************************************************************************)
(* The handle is dropped (or the process ends or is killed): the file      *)
(* stays as it is.                                                         *)
(***************************************************************************)
Close ==
    /\ open
    /\ open' = FALSE
    /\ current_id' = 0
    /\ pos' = 0
    /\ handle' = NoHandle
    /\ last' = Call("close", TRUE, 0, <<>>, <<>>)
    /\ UNCHANGED <<threadVars, file, stable, fails, losses, kept>>

(***************************************************************************)
(* The operating system: it writes the file back to stable storage when it *)
(* chooses; a power loss leaves what is on stable storage, and no process. *)
(***************************************************************************)
WriteBack ==
    /\ stable # file
    /\ stable' = file
    /\ UNCHANGED <<threadVars, file, open, current_id, pos, fails, losses, last, handle,
                   kept>>

PowerLoss ==
    /\ losses < MaxLoss
    /\ file' = stable
    /\ open' = FALSE
    /\ current_id' = 0
    /\ pos' = 0
    /\ losses' = losses + 1
    /\ handle' = NoHandle
    /\ last' = Call("power_loss", TRUE, 0, <<>>, <<>>)
    /\ UNCHANGED <<threadVars, stable, fails, kept>>

(***************************************************************************)
(* Something other than this handle writes to the path: the first byte of  *)
(* a line becomes a byte that no UTF-8 text holds.                         *)
(***************************************************************************)
Damage ==
    /\ open
    /\ ValidUtf8(file)
    /\ \E i \in 1 .. Len(file) :
         /\ LineStart(file, i - 1)
         /\ file' = [file EXCEPT ![i] = Ch.xff]
    /\ last' = Call("damage", TRUE, 0, <<>>, <<>>)
    /\ UNCHANGED <<threadVars, stable, open, current_id, pos, fails, losses, handle, kept>>

(***************************************************************************)
(* Threads that share one handle (&self: read_all, clear, clear_id), each  *)
(* call taken statement by statement.  A call starts with                  *)
(* self.file.lock().unwrap(); the guard lives to the end of the function.  *)
(***************************************************************************)
\* (A variant of the lock that lets every thread in.)
AcquireAlways(t) == TRUE

\* Mutex::lock returns when no thread holds the guard.
Acquire(t) == lock = NoThread

FirstStep(op) ==
    CASE op = "read_all" -> "ra_seek"
      [] op = "clear" -> "cl_set_len"
      [] op = "clear_id" -> "ci_seek"

\* A thread calls read_all, clear or clear_id(id).
TCall(t, op, id) ==
    /\ open
    /\ pc[t] = "idle"
    /\ pc' = [pc EXCEPT ![t] = "lock"]
    /\ local' = [local EXCEPT ![t] = [NoLocal EXCEPT !.op = op, !.id = id]]
    /\ UNCHANGED <<file, stable, open, current_id, pos, fails, losses, last,
                   handle, kept, lock>>

TLock(t) ==
    /\ pc[t] = "lock"
    /\ Acquire(t)
    /\ lock' = t
    /\ pc' = [pc EXCEPT ![t] = FirstStep(local[t].op)]
    /\ UNCHANGED <<file, stable, open, current_id, pos, fails, losses, last,
                   handle, kept, local>>

\* file.seek(SeekFrom::Start(0)) of read_all, clear_id and clear.
TSeek(t) ==
    /\ pc[t] \in {"ra_seek", "ci_seek", "cl_seek"}
    /\ pos' = 0
    /\ pc' = [pc EXCEPT ![t] = CASE pc[t] = "ra_seek" -> "ra_read"
                                 [] pc[t] = "ci_seek" -> "ci_read"
                                 [] pc[t] = "cl_seek" -> "ret"]
    /\ UNCHANGED <<file, stable, open, current_id, fails, losses, last,
                   handle, kept, lock, local>>

\* read_to_string and the lines that parse; clear_id also encodes the
\* entries that stay.
TRead(t) ==
    /\ pc[t] \in {"ra_read", "ci_read"}
    /\ pos' = Len(file)
    /\ LET r == ReadAllResult(file)
       IN  /\ local' = [local EXCEPT
                          ![t].ok = r.ok,
                          ![t].ret = r.entries,
                          ![t].bytes = IF pc[t] = "ci_read" /\ r.ok
                                       THEN Rewrite(r.entries, local[t].id)
                                       ELSE <<>>]
           /\ pc' = [pc EXCEPT ![t] = IF pc[t] = "ci_read" /\ r.ok
                                      THEN "ci_set_len" ELSE "ret"]
    /\ UNCHANGED <<file, stable, open, current_id, fails, losses, last,
                   handle, kept, lock>>

\* file.set_len(0) of clear and clear_id.
TSetLen(t) ==
    /\ pc[t] \in {"cl_set_len", "ci_set_len"}
    /\ file' = <<>>
    /\ pc' = [pc EXCEPT ![t] = IF pc[t] = "cl_set_len"
                               THEN "cl_seek" ELSE "ci_write"]
    /\ UNCHANGED <<stable, open, current_id, pos, fails, losses, last,
                   handle, kept, lock, local>>

\* file.write_all(&entries) of clear_id.
TWrite(t) ==
    /\ pc[t] = "ci_write"
    /\ LET written == WriteAt(file, pos, local[t].bytes)
       IN  /\ file' = written
           /\ pos' = OffsetAfter(file, pos, local[t].bytes)
    /\ pc' = [pc EXCEPT ![t] = "ci_flush"]
    /\ UNCHANGED <<stable, open, current_id, fails, losses, last, handle,
                   kept, lock, local>>

\* file.flush() of clear_id.
TFlush(t) ==
    /\ pc[t] = "ci_flush"
    /\ stable' = Flush(stable, file)
    /\ pc' = [pc EXCEPT ![t] = "ret"]
    /\ UNCHANGED <<file, open, current_id, pos, fails, losses, last, handle,
                   kept, lock, local>>

\* The call returns and its guard is dropped.
TReturn(t) ==
    /\ pc[t] = "ret"
    /\ lock' = NoThread
    /\ pc' = [pc EXCEPT ![t] = "idle"]
    /\ local' = [local EXCEPT ![t] = NoLocal]
    /\ last' = Call(local[t].op, local[t].ok, local[t].id, <<>>,
                    IF local[t].op = "read_all" THEN local[t].ret ELSE <<>>)
    /\ kept' = CASE local[t].op = "clear" -> {}
                 [] local[t].op = "clear_id" ->
                      {en \in kept : en.id # local[t].id}
                 [] OTHER -> kept
    /\ UNCHANGED <<file, stable, open, current_id, pos, fails, losses,
                   handle>>

AllIdle == \A t \in Threads : pc[t] = "idle"

InCall(t) == pc[t] \notin {"idle", "lock"}

Next ==
    \/ New
    \/ \E data \in Payloads, now \in Timestamps : WalAppend(data, now)
    \/ \E data \in Payloads, now \in Timestamps :
         \E n \in IoCuts(Record(current_id, now, data)) :
           AppendIoError(data, now, n)
    \/ ReadAll
    \/ Clear
    \/ ClearId
    \/ ClearIdIoError
    \/ Close

Spec == Init /\ [][Next]_vars

\* A machine that may lose power, with writes that do not fail.
NextPower ==
    \/ New
    \/ \E data \in Payloads, now \in Timestamps : WalAppend(data, now)
    \/ ReadAll
    \/ Clear
    \/ ClearId
    \/ Close
    \/ WriteBack
    \/ PowerLoss

SpecPower == Init /\ [][NextPower]_vars

\* A path that something else writes to, with writes that do not fail.
NextDamage ==
    \/ New
    \/ \E data \in Payloads, now \in Timestamps : WalAppend(data, now)
    \/ ReadAll
    \/ Clear
    \/ ClearId
    \/ Close
    \/ Damage

SpecDamage == Init /\ [][NextDamage]_vars

\* A path that does not exist yet, so that new creates the file empty: one
\* handle at a time, with writes that do not fail and no loss of power.
InitEmpty == Init /\ file = <<>>

NextClean ==
    \/ New
    \/ \E data \in Payloads, now \in Timestamps : WalAppend(data, now)
    \/ ReadAll
    \/ Clear
    \/ ClearId
    \/ Close

SpecClean == InitEmpty /\ [][NextClean]_vars

\* Threads that share the handle; append (&mut self) runs when no other call
\* does.  Writes do not fail.
NextThreads ==
    \/ New
    \/ \E data \in Payloads, now \in Timestamps :
         AllIdle /\ WalAppend(data, now)
    \/ \E t \in Threads :
         \/ TCall(t, "read_all", 0)
         \/ TCall(t, "clear", 0)
         \/ \E id \in Ids : TCall(t, "clear_id", id)
         \/ TLock(t)
         \/ TSeek(t)
         \/ TRead(t)
         \/ TSetLen(t)
         \/ TWrite(t)
         \/ TFlush(t)
         \/ TReturn(t)

SpecThreads == Init /\ [][NextThreads]_vars

(***************************************************************************)
(* The properties.                                                         *)
(***************************************************************************)
Range(s) == {s[i] : i \in 1 .. Len(s)}

HasId(entries, id) == \E i \in 1 .. Len(entries) : entries[i].id = id

Without(s, i) == SubSeq(s, 1, i - 1) \o SubSeq(s, i + 1, Len(s))

MaxStoredId(entries) ==
    CHOOSE m \in {en.id : en \in Range(entries)} :
      \A en \in Range(entries) : en.id <= m

\* C1: through a handle opened on an empty file, read_all before any append
\* returns no entry, and the k-th successful append, counted from 0, returns
\* the id k (so the next id is the number of appends that succeeded).
C1_FreshIds ==
    (open /\ handle.fresh) =>
      /\ handle.called = 0 =>
           ReadAllResult(file) = [ok |-> TRUE, entries |-> <<>>]
      /\ (handle.called = 0 /\ last.op = "read_all") =>
           (last.ok /\ last.ret = <<>>)
      /\ current_id = handle.appended
      /\ (last.op = "append" /\ last.ok) =>
           last.ret[1].id = handle.appended - 1

\* C1, its case: the second successful append through a handle opened on an
\* empty file has returned the id 1.
C1_Witness ==
    /\ open /\ handle.fresh /\ handle.appended = 2
    /\ last.op = "append" /\ last.ok /\ last.ret[1].id = 1

\* C2: right after an append that succeeded, read_all succeeds and its last
\* entry has the id the append returned and the payload it was given.
C2_RoundTrip ==
    (last.op = "append" /\ last.ok) =>
      LET r == ReadAllResult(file)
      IN  /\ r.ok
          /\ r.entries # <<>>
          /\ r.entries[Len(r.entries)].id = last.ret[1].id
          /\ r.entries[Len(r.entries)].data = last.data

\* C3: once the machine has lost power, a read_all through a new handle
\* returns every entry that an append returned (and that no clear_id was
\* called for, with no clear since).
C3_Durable ==
    (losses > 0 /\ last.op = "read_all" /\ last.ok) =>
      kept \subseteq Range(last.ret)

\* C4: after new, the next id is the greatest id among the entries in the
\* file plus 1, and 0 when the file holds no entry.
C4_Recovery ==
    (last.op = "new" /\ last.ok) =>
      LET entries == Entries(file)
      IN  current_id =
            IF entries = <<>> THEN 0 ELSE MaxStoredId(entries) + 1

\* C5: a clear_id(k) that succeeds on a file holding an entry of id k takes
\* out exactly one entry: read_all after it is read_all before it less one
\* entry, of id k, the others as they were and in their order.
C5_RemoveOne ==
    [][ (last'.op = "clear_id" /\ last'.ok
           /\ HasId(Entries(file), last'.id)) =>
          LET before == Entries(file)
              after == Entries(file')
          IN  \E i \in 1 .. Len(before) :
                /\ before[i].id = last'.id
                /\ after = Without(before, i) ]_vars

\* C6: every read_all returns each entry that a successful append returned,
\* until clear_id is called with its id or clear is called, whatever appends
\* (succeeding or failing), read_alls, clear_ids of other ids and reopenings
\* come between.  (An entry is not followed past a clear_id that failed
\* while it wrote.)
C6_KeptUntilRemoved ==
    (last.op = "read_all") => (last.ok /\ \A en \in kept : en \in Range(last.ret))

\* C7: a clear_id(k), with no I/O error, on a file with no entry of id k
\* succeeds, leaves the result of read_all as it was and leaves the next id.
C7_RemoveAbsent ==
    [][ (last'.op = "clear_id" /\ fails' = fails
           /\ ReadAllResult(file).ok
           /\ ~HasId(Entries(file), last'.id)) =>
          /\ last'.ok
          /\ ReadAllResult(file') = ReadAllResult(file)
          /\ current_id' = current_id ]_vars

\* C7, its case: a clear_id has succeeded and taken nothing out of a file
\* that holds entries.
C7_Witness ==
    /\ last.op = "clear_id" /\ last.ok /\ last.removed = 0
    /\ Entries(file) # <<>>

\* C8: right after clear, read_all returns no entry; right after an append
\* that follows a clear, read_all returns the entry that append returned and
\* no other.
C8_ClearEmpties ==
    /\ (last.op = "clear" /\ last.ok) =>
         ReadAllResult(file) = [ok |-> TRUE, entries |-> <<>>]
    /\ (last.op = "append" /\ last.ok /\ last.afterClear) =>
         ReadAllResult(file) = [ok |-> TRUE, entries |-> last.ret]

\* C8, its case: a handle that had given out ids was cleared and an append
\* after the clear has succeeded.
C8_Witness ==
    /\ last.op = "append" /\ last.ok /\ last.afterClear
    /\ last.idAtClear > 0
    /\ Len(last.ret) = 1

\* C9: clear leaves current_id, and the append after a clear returns the id
\* that was the next id before the clear.
C9_ClearKeepsId ==
    /\ (last.op = "clear" /\ last.ok) => current_id = last.idAtClear
    /\ (last.op = "append" /\ last.ok /\ last.afterClear) =>
         /\ last.ret[1].id = last.idAtClear
         /\ current_id = last.idAtClear + 1

\* C9, its case: the append after a clear has returned an id that is not 0.
C9_Witness ==
    /\ last.op = "append" /\ last.ok /\ last.afterClear
    /\ last.ret[1].id > 0
    /\ last.ret[1].id = last.idAtClear

\* C10: read_all does not fail whatever the file holds, and returns the
\* entries of the lines that parse, in the file's order.
C10_Lenient ==
    (last.op = "read_all") =>
      (last.ok /\ last.ret = ParseLines(Lines(file), 1))

\* C11: read_all leaves the file's bytes and current_id as they were; a
\* read_all right after a read_all returns the same entries; and an append
\* right after a read_all that succeeds adds its record and a line feed at
\* the end of the file, though read_all moved the offset.
C11_ReadAllFrame ==
    [][ /\ (last'.op = "read_all") =>
             (file' = file /\ current_id' = current_id /\ pos' = Len(file))
        /\ (last.op = "read_all" /\ last'.op = "read_all") =>
             last'.ret = last.ret
        /\ (last.op = "read_all" /\ last'.op = "append" /\ last'.ok) =>
             file' = file \o Serialize(last'.ret[1]) \o <<Ch.lf>> ]_vars

\* C11, its case: a read_all has returned entries from a file, through a
\* handle that can still append.
C11_Witness ==
    /\ open /\ last.op = "read_all" /\ last.ok
    /\ last.ret # <<>>
    /\ pos = Len(file)
    /\ current_id < MaxId

\* C12: of the threads that share the handle, one at most is inside a call,
\* and it holds the lock; what a read_all is about to return is what the
\* file holds; and beside a clear_id that has read the file, a read_all
\* returns the entries from before the clear_id or those that stay after it,
\* never those of the cut file.
C12_Exclusive ==
    /\ \A t, u \in Threads : (t # u /\ InCall(t)) => ~InCall(u)
    /\ \A t \in Threads : InCall(t) => lock = t
    /\ \A t \in Threads :
         (pc[t] = "ret" /\ local[t].op = "read_all") =>
           ReadAllResult(file) = [ok |-> local[t].ok, entries |-> local[t].ret]
    /\ \A t, u \in Threads :
         ( /\ pc[t] = "ret" /\ local[t].op = "read_all"
           /\ pc[u] \in {"ci_set_len", "ci_write", "ci_flush"} ) =>
           local[t].ret \in {local[u].ret, Keep(local[u].ret, local[u].id)}

\* C12, its case: a clear_id has cut the file, which held entries that stay,
\* and has not written them yet, while another thread has called read_all
\* and waits for the lock.
C12_Witness ==
    \E t, u \in Threads :
      /\ pc[u] = "ci_write" /\ lock = u
      /\ file = <<>> /\ local[u].bytes # <<>>
      /\ pc[t] = "lock" /\ local[t].op = "read_all"

\* C13: an append that succeeds leaves every byte of the file where it was
\* and adds, after them, the encoding of the entry it returns and one line
\* feed: the file before is a strict prefix of the file after.
C13_AppendOnly ==
    [][ (last'.op = "append" /\ last'.ok) =>
          /\ file' = file \o Serialize(last'.ret[1]) \o <<Ch.lf>>
          /\ Len(file') > Len(file)
          /\ Take(file', Len(file)) = file ]_vars

\* C13, its case: an append has succeeded on a file that held bytes, and its
\* record is the end of the file.
C13_Witness ==
    /\ last.op = "append" /\ last.ok
    /\ Len(file) > Len(Record(last.ret[1].id, last.ret[1].timestamp,
                               last.ret[1].data))
    /\ Drop(file, Len(file) - Len(Serialize(last.ret[1])) - 1)
         = Serialize(last.ret[1]) \o <<Ch.lf>>

\* C14: while a handle is open, current_id never goes down: a successful
\* append returns the entry with id current_id and adds exactly 1 to it, and
\* read_all, clear_id, clear and a failed append leave it.
C14_CounterMonotone ==
    [][ (open /\ open') =>
          IF last'.op = "append" /\ last'.ok
          THEN /\ last'.ret[1].id = current_id
               /\ current_id' = current_id + 1
          ELSE current_id' = current_id ]_vars

\* C14, its case: through a handle opened on a file that held entries, two
\* appends have succeeded and a call that is not an append has followed.
C14_Witness ==
    /\ open /\ ~handle.fresh /\ handle.appended >= 2
    /\ last.op \in {"read_all", "clear_id", "clear"}

\* C15: a clear_id(k) that stops between set_len and the end of write_all
\* leaves a file that is empty or a part of the content it was writing (the
\* entries of other ids, encoded again): a strict prefix of it, whose entries
\* are among those.
C15_RemoveTorn ==
    [][ (last'.op = "clear_id" /\ ~last'.ok /\ fails' = fails + 1) =>
          LET stay == Keep(Entries(file), last'.id)
              bytes == Encode(stay)
          IN  /\ Len(file') < Len(bytes)
              /\ file' = Take(bytes, Len(file'))
              /\ Range(Entries(file')) \subseteq Range(stay)
              /\ last'.lost = Len(stay) - Len(Entries(file')) ]_vars

\* C15, its case: a clear_id(k) stopped after it cut the file, the path was
\* opened again, and read_all has returned fewer entries of ids other than k
\* than the file held.
C15_Witness ==
    /\ last.op = "read_all" /\ last.ok
    /\ last.lost > 0
    /\ ReadAllResult(file).entries = last.ret

\* C16: an append that returns an error returns no entry and leaves
\* current_id as it was; the record was serialized whole before the first
\* write, so what the file gained is the start of one complete record of id
\* current_id, without its line feed, and the flushed content is as it was.
C16_FailedAppend ==
    [][ (last'.op = "append" /\ ~last'.ok) =>
          /\ last'.ret = <<>>
          /\ current_id' = current_id
          /\ open'
          /\ stable' = stable
          /\ \E now \in Timestamps, data \in Payloads :
                LET serialized == Serialize(Entry(current_id, now, data))
                IN  /\ Len(file') - Len(file) \in 0 .. Len(serialized)
                    /\ file' = file \o Take(serialized,
                                            Len(file') - Len(file)) ]_vars

\* C16, its case: an append has failed on an open log after writing a part
\* of its record, and the next id is the one that append had taken.
C16_Witness ==
    /\ last.op = "append" /\ ~last.ok
    /\ open /\ fails = 1
    /\ file # <<>> /\ file[Len(file)] # Ch.lf
    /\ last.ret = <<>>

\* C17: from an empty file, through one handle at a time and with no failure,
\* the ids of the entries in the file grow strictly from each entry to the
\* next (so no two are the same), and while the log is open each is below
\* current_id.
C17_IdsIncrease ==
    LET entries == Entries(file)
    IN  /\ ValidUtf8(file)
        /\ \A i \in 1 .. Len(entries) - 1 : entries[i].id < entries[i + 1].id
        /\ open => \A i \in 1 .. Len(entries) : entries[i].id < current_id

\* C17, its case: the file holds two entries, the second appended through a
\* handle that was opened on a file which already held entries.
C17_Witness ==
    /\ open /\ last.op = "append" /\ last.ok
    /\ handle.appended = 1
    /\ Len(Entries(file)) = 2
    /\ last.ret[1].id = 1

\* C18: after a clear_id(k) that succeeded, the file is, from its first byte,
\* the entries the file held whose id is not k, in their order, each
\* serialized again and followed by one line feed: as many lines as such
\* entries, the i-th the serialization of the i-th, the last byte a line
\* feed, and nothing else (no entry of id k, no line that was empty or did
\* not parse, no zero bytes in front).
C18_RemoveRewrites ==
    [][ (last'.op = "clear_id" /\ last'.ok) =>
          LET was == Entries(file)
              stay == SelectSeq(was, LAMBDA en : en.id # last'.id)
              lines == Lines(file')
          IN  /\ Len(lines) = Len(stay)
              /\ \A i \in 1 .. Len(stay) : lines[i] = Serialize(stay[i])
              /\ file' # <<>> => file'[Len(file')] = Ch.lf
              /\ stay = <<>> => file' = <<>>
              /\ Entries(file') = stay
              /\ last'.removed = Len(was) - Len(stay) ]_vars

\* C18, its case: a clear_id has succeeded on a file that held an entry of
\* its id, and entries of other ids are in the file.
C18_Witness ==
    /\ last.op = "clear_id" /\ last.ok
    /\ last.removed > 0
    /\ Entries(file) # <<>>
    /\ \A i \in 1 .. Len(Entries(file)) : Entries(file)[i].id # last.id

\* C19: new does not fail whatever the file holds: it leaves the file's
\* bytes as they are, skips the lines that are empty or do not parse, and
\* sets current_id to the id of the last entry in the file plus 1, or to 0
\* when no line parses.
C19_LenientRecovery ==
    [][ (~open /\ last'.op = "new") =>
          LET entries == ParseLines(Lines(file), 1)
          IN  /\ last'.ok
              /\ open'
              /\ file' = file
              /\ current_id' = IF entries = <<>> THEN 0
                               ELSE entries[Len(entries)].id + 1 ]_vars


=============================================================================
